---- MODULE Spec2Model ----
\* Model of coreos-metadata: the orchestrator `run` (src/bin/coreos-metadata.rs),
\* its helpers `init` and `get_oem`, and the provider dispatcher
\* `fetch_metadata` (src/lib.rs).
\*
\* Rust strings that the program inspects (provider names, the contents of
\* /proc/cmdline) are sequences of one-character strings, so that splitting
\* and comparison are computed character by character.  Option<T> is a
\* sequence of length 0 (None) or 1 (Some).
EXTENDS Integers, Sequences, FiniteSets, TLC

VARIABLES args, config, cmdline_file, pc, metadata, calls, outcome, err, exit_code

vars == <<args, config, cmdline_file, pc, metadata, calls, outcome, err, exit_code>>

\* ---------------------------------------------------------------- bounds
\* longest boot parameter list (in tokens) explored by SpecOem
MaxTokens == 3
\* longest boot parameter list (in tokens) explored by Spec
MaxRunTokens == 1

\* ---------------------------------------------------------------- strings
s_azure == <<"a", "z", "u", "r", "e">>
s_cloudstack_metadata == <<"c", "l", "o", "u", "d", "s", "t", "a", "c", "k", "-", "m", "e", "t", "a", "d", "a", "t", "a">>
s_cloudstack_configdrive == <<"c", "l", "o", "u", "d", "s", "t", "a", "c", "k", "-", "c", "o", "n", "f", "i", "g", "d", "r", "i", "v", "e">>
s_digitalocean == <<"d", "i", "g", "i", "t", "a", "l", "o", "c", "e", "a", "n">>
s_ec2 == <<"e", "c", "2">>
s_gce == <<"g", "c", "e">>
s_openstack_metadata == <<"o", "p", "e", "n", "s", "t", "a", "c", "k", "-", "m", "e", "t", "a", "d", "a", "t", "a">>
s_packet == <<"p", "a", "c", "k", "e", "t">>
s_vagrant_virtualbox == <<"v", "a", "g", "r", "a", "n", "t", "-", "v", "i", "r", "t", "u", "a", "l", "b", "o", "x">>
s_EC2 == <<"E", "C", "2">>
s_Azure == <<"A", "z", "u", "r", "e">>
s_ec2x == <<"e", "c", "2", "x">>
s_gc == <<"g", "c">>
s_BOOT_IMAGE == <<"B", "O", "O", "T", "_", "I", "M", "A", "G", "E">>
s_vmlinuz == <<"/", "v", "m", "l", "i", "n", "u", "z">>
s_console == <<"c", "o", "n", "s", "o", "l", "e">>
s_ttyS0 == <<"t", "t", "y", "S", "0">>

CMDLINE_OEM_FLAG == <<"c", "o", "r", "e", "o", "s", ".", "o", "e", "m", ".", "i", "d">>

None == <<>>

Some(x) == <<x>>

\* ---------------------------------------------------------------- errors
\* An error is its chain of causes, outermost first.
Msg(text) == [kind |-> "Msg", text |-> text, p |-> <<>>]

UnknownProvider(p) == [kind |-> "UnknownProvider", text |-> "unknown provider", p |-> p]

\* an error raised by an external collaborator (file system, provider, writer)
Foreign(origin) == [kind |-> "Foreign", text |-> origin, p |-> <<>>]

chain_err(e, label) == <<Msg(label)>> \o e

Call(op, arg) == [op |-> op, arg |-> arg]

\* ---------------------------------------------------------------- get_oem
\* str::split: the pieces of s between occurrences of the character c
RECURSIVE split(_, _)
split(s, c) ==
    IF \E i \in 1..Len(s) : s[i] = c
    THEN LET i == CHOOSE k \in 1..Len(s) : s[k] = c /\ \A j \in 1..(k - 1) : s[j] # c
         IN  <<SubSeq(s, 1, i - 1)>> \o split(SubSeq(s, i + 1, Len(s)), c)
    ELSE <<s>>

\* one parameter as the kernel prints it: key, or key=value
TokenText(tok) == IF tok.val = None THEN tok.key ELSE tok.key \o <<"=">> \o tok.val[1]

RECURSIVE JoinTokens(_)
JoinTokens(toks) ==
    IF Len(toks) = 0 THEN <<>>
    ELSE IF Len(toks) = 1 THEN TokenText(toks[1])
    ELSE TokenText(toks[1]) \o <<" ">> \o JoinTokens(Tail(toks))

\* the text File::read_to_string delivers for the boot parameter file
read_to_string(file) == JoinTokens(file.tokens) \o (IF file.newline THEN <<"\n">> ELSE <<>>)

get_oem(file) ==
    IF ~file.open_ok
    THEN [ok |-> FALSE, val |-> <<>>,
          err |-> chain_err(<<Foreign("File::open")>>, "Failed to open cmdline file (/proc/cmdline)"),
          calls |-> <<Call("File::open", <<>>)>>]
    ELSE IF ~file.read_ok
    THEN [ok |-> FALSE, val |-> <<>>,
          err |-> chain_err(<<Foreign("read_to_string")>>, "Failed to read cmdline file (/proc/cmdline)"),
          calls |-> <<Call("File::open", <<>>), Call("read_to_string", <<>>)>>]
    ELSE LET contents == read_to_string(file)
             elems == split(contents, " ")
             params == [i \in 1..Len(elems) |-> split(elems[i], "=")]
             hits == {i \in 1..Len(params) : Len(params[i]) > 1 /\ params[i][1] = CMDLINE_OEM_FLAG}
             io == <<Call("File::open", <<>>), Call("read_to_string", <<>>)>>
         IN  IF hits # {}
             THEN LET first == CHOOSE i \in hits : \A j \in hits : i <= j
                  IN  [ok |-> TRUE, val |-> params[first][2], err |-> <<>>, calls |-> io]
             ELSE [ok |-> FALSE, val |-> <<>>,
                   err |-> <<Msg("Couldn't find 'coreos.oem.id' flag in cmdline file (/proc/cmdline)")>>,
                   calls |-> io]

\* ---------------------------------------------------------------- fetch_metadata
\* box_result!(X::new()): the constructor runs; its error, if any, propagates
box_result(variant, new_ok) ==
    [ok |-> new_ok, variant |-> variant,
     err |-> IF new_ok THEN <<>> ELSE <<Foreign(variant)>>,
     constructed |-> <<Call(variant, <<>>)>>]

fetch_metadata_default(provider, new_ok) ==
    CASE provider = s_azure -> box_result("azure::Azure", new_ok)
      [] provider = s_cloudstack_metadata -> box_result("cloudstack::network::CloudstackNetwork", new_ok)
      [] provider = s_cloudstack_configdrive -> box_result("cloudstack::configdrive::ConfigDrive", new_ok)
      [] provider = s_digitalocean -> box_result("digitalocean::DigitalOceanProvider", new_ok)
      [] provider = s_ec2 -> box_result("ec2::Ec2Provider", new_ok)
      [] provider = s_gce -> box_result("gce::GceProvider", new_ok)
      [] provider = s_openstack_metadata -> box_result("openstack::network::OpenstackProvider", new_ok)
      [] provider = s_packet -> box_result("packet::PacketProvider", new_ok)
      [] provider = s_vagrant_virtualbox -> box_result("vagrant_virtualbox::VagrantVirtualboxProvider", new_ok)
      [] OTHER -> box_result("ec2::Ec2Provider", new_ok)

fetch_metadata_copied_arm(provider, new_ok) ==
    CASE provider = s_azure -> box_result("azure::Azure", new_ok)
      [] provider = s_cloudstack_metadata -> box_result("cloudstack::network::CloudstackNetwork", new_ok)
      [] provider = s_cloudstack_configdrive -> box_result("cloudstack::configdrive::ConfigDrive", new_ok)
      [] provider = s_digitalocean -> box_result("digitalocean::DigitalOceanProvider", new_ok)
      [] provider = s_ec2 -> box_result("ec2::Ec2Provider", new_ok)
      [] provider = s_gce -> box_result("ec2::Ec2Provider", new_ok)
      [] provider = s_openstack_metadata -> box_result("openstack::network::OpenstackProvider", new_ok)
      [] provider = s_packet -> box_result("packet::PacketProvider", new_ok)
      [] provider = s_vagrant_virtualbox -> box_result("vagrant_virtualbox::VagrantVirtualboxProvider", new_ok)
      [] OTHER -> [ok |-> FALSE, variant |-> "", err |-> <<UnknownProvider(provider)>>, constructed |-> <<>>]

fetch_metadata(provider, new_ok) ==
    CASE provider = s_azure -> box_result("azure::Azure", new_ok)
      [] provider = s_cloudstack_metadata -> box_result("cloudstack::network::CloudstackNetwork", new_ok)
      [] provider = s_cloudstack_configdrive -> box_result("cloudstack::configdrive::ConfigDrive", new_ok)
      [] provider = s_digitalocean -> box_result("digitalocean::DigitalOceanProvider", new_ok)
      [] provider = s_ec2 -> box_result("ec2::Ec2Provider", new_ok)
      [] provider = s_gce -> box_result("gce::GceProvider", new_ok)
      [] provider = s_openstack_metadata -> box_result("openstack::network::OpenstackProvider", new_ok)
      [] provider = s_packet -> box_result("packet::PacketProvider", new_ok)
      [] provider = s_vagrant_virtualbox -> box_result("vagrant_virtualbox::VagrantVirtualboxProvider", new_ok)
      [] OTHER -> [ok |-> FALSE, variant |-> "", err |-> <<UnknownProvider(provider)>>, constructed |-> <<>>]

\* ---------------------------------------------------------------- inputs
Targets == {"attributes_file", "ssh_keys_user", "hostname_file", "network_units_dir"}

\* provider names given with --provider
ProviderArgs ==
    {s_azure, s_cloudstack_metadata, s_cloudstack_configdrive, s_digitalocean, s_ec2, s_gce,
     s_openstack_metadata, s_packet, s_vagrant_virtualbox, s_EC2, s_Azure, s_ec2x, s_gc}

\* the Config values Config::from_iter can produce
Configs ==
    [provider : {None} \cup {Some(p) : p \in ProviderArgs},
     attributes_file : BOOLEAN, ssh_keys_user : BOOLEAN,
     hostname_file : BOOLEAN, network_units_dir : BOOLEAN,
     cmdline : BOOLEAN]

\* parameters that may appear in the boot parameter file
Tokens ==
    {[key |-> s_BOOT_IMAGE, val |-> Some(s_vmlinuz)],
     [key |-> CMDLINE_OEM_FLAG, val |-> Some(s_ec2)],
     [key |-> CMDLINE_OEM_FLAG, val |-> Some(s_gce)],
     [key |-> CMDLINE_OEM_FLAG, val |-> None],
     [key |-> s_console, val |-> Some(s_ttyS0)]}

TokenLists(n) == UNION {[1..k -> Tokens] : k \in 0..n}

\* states of /proc/cmdline: absent, unreadable, or one line of parameters
CmdlineFiles(n) ==
    {[open_ok |-> FALSE, read_ok |-> FALSE, tokens |-> <<>>, newline |-> FALSE],
     [open_ok |-> TRUE, read_ok |-> FALSE, tokens |-> <<>>, newline |-> FALSE]}
    \cup [open_ok : {TRUE}, read_ok : {TRUE}, tokens : TokenLists(n), newline : BOOLEAN]

Start(cfg, file) ==
    /\ args = cfg
    /\ config = cfg
    /\ cmdline_file = file
    /\ pc = "init"
    /\ metadata = None
    /\ calls = <<>>
    /\ outcome = [t \in Targets |-> "none"]
    /\ err = <<>>
    /\ exit_code = -1

Init == \E cfg \in Configs, file \in CmdlineFiles(MaxRunTokens) : Start(cfg, file)

\* ---------------------------------------------------------------- init
init_uses_cmdline_without_flag(cfg) == cfg.provider = None

init_uses_cmdline_over_provider(cfg) == cfg.cmdline

\* the condition under which init derives the provider from the boot parameters
init_uses_cmdline(cfg) == cfg.provider = None /\ cfg.cmdline

\* let config = init().chain_err(|| "initialization")?;
run_init ==
    /\ pc = "init"
    /\ IF init_uses_cmdline(config)
       THEN LET r == get_oem(cmdline_file)
            IN  /\ calls' = calls \o r.calls
                /\ IF r.ok
                   THEN /\ config' = [config EXCEPT !.provider = Some(r.val)]
                        /\ pc' = "fetch"
                        /\ err' = err
                   ELSE /\ config' = config
                        /\ pc' = "returned"
                        /\ err' = chain_err(r.err, "initialization")
       ELSE /\ pc' = "fetch"
            /\ UNCHANGED <<config, calls, err>>
    /\ UNCHANGED <<args, cmdline_file, metadata, outcome, exit_code>>

\* ---------------------------------------------------------------- run
run_fetch_unchecked ==
    /\ pc = "fetch"
    /\ IF config.provider = None
       THEN /\ pc' = "returned"
            /\ err' = <<Msg("Must set either --provider or --cmdline")>>
            /\ UNCHANGED <<calls, metadata>>
       ELSE \E new_ok \in BOOLEAN :
              LET r == fetch_metadata(config.provider[1], new_ok)
              IN  /\ calls' = (calls \o <<Call("fetch_metadata", config.provider[1])>>) \o r.constructed
                  /\ metadata' = IF r.ok THEN Some(r.variant) ELSE metadata
                  /\ pc' = "write_attributes"
                  /\ err' = err
    /\ UNCHANGED <<args, config, cmdline_file, outcome, exit_code>>

\* let metadata = match config.provider { Some(provider) => fetch_metadata(..)?, None => bail!(..) }
run_fetch ==
    /\ pc = "fetch"
    /\ IF config.provider = None
       THEN /\ pc' = "returned"
            /\ err' = <<Msg("Must set either --provider or --cmdline")>>
            /\ UNCHANGED <<calls, metadata>>
       ELSE \E new_ok \in BOOLEAN :
              LET r == fetch_metadata(config.provider[1], new_ok)
              IN  /\ calls' = (calls \o <<Call("fetch_metadata", config.provider[1])>>) \o r.constructed
                  /\ IF r.ok
                     THEN /\ metadata' = Some(r.variant)
                          /\ pc' = "write_attributes"
                          /\ err' = err
                     ELSE /\ metadata' = metadata
                          /\ pc' = "returned"
                          /\ err' = chain_err(r.err, "fetching metadata from provider")
    /\ UNCHANGED <<args, config, cmdline_file, outcome, exit_code>>

\* target.map_or(Ok(()), |x| metadata.writer(x)).chain_err(|| label)?
write_stage(stage, target, writer, label, next) ==
    /\ pc = stage
    /\ IF config[target]
       THEN \E write_ok \in BOOLEAN :
              /\ calls' = Append(calls, Call(writer, <<>>))
              /\ outcome' = [outcome EXCEPT ![target] = IF write_ok THEN "ok" ELSE "err"]
              /\ IF write_ok
                 THEN pc' = next /\ err' = err
                 ELSE pc' = "returned" /\ err' = chain_err(<<Foreign(writer)>>, label)
       ELSE /\ pc' = next
            /\ UNCHANGED <<calls, outcome, err>>
    /\ UNCHANGED <<args, config, cmdline_file, metadata, exit_code>>

run_write_attributes ==
    write_stage("write_attributes", "attributes_file", "write_attributes",
                "writing metadata attributes", "write_ssh_keys")

run_write_ssh_keys ==
    write_stage("write_ssh_keys", "ssh_keys_user", "write_ssh_keys",
                "writing ssh keys", "write_hostname")

run_write_hostname_always ==
    /\ pc = "write_hostname"
    /\ \E write_ok \in BOOLEAN :
         /\ calls' = Append(calls, Call("write_hostname", <<>>))
         /\ outcome' = [outcome EXCEPT !["hostname_file"] = IF write_ok THEN "ok" ELSE "err"]
         /\ IF write_ok
            THEN pc' = "write_network_units" /\ err' = err
            ELSE pc' = "returned" /\ err' = chain_err(<<Foreign("write_hostname")>>, "writing hostname")
    /\ UNCHANGED <<args, config, cmdline_file, metadata, exit_code>>

run_write_hostname ==
    write_stage("write_hostname", "hostname_file", "write_hostname",
                "writing hostname", "write_network_units")

run_write_network_units_ignored ==
    /\ pc = "write_network_units"
    /\ IF config["network_units_dir"]
       THEN \E write_ok \in BOOLEAN :
              /\ calls' = Append(calls, Call("write_network_units", <<>>))
              /\ outcome' = [outcome EXCEPT !["network_units_dir"] = IF write_ok THEN "ok" ELSE "err"]
              /\ pc' = "returned"
              /\ err' = err
       ELSE /\ pc' = "returned"
            /\ UNCHANGED <<calls, outcome, err>>
    /\ UNCHANGED <<args, config, cmdline_file, metadata, exit_code>>

\* the last stage; when it succeeds run returns Ok(())
run_write_network_units ==
    write_stage("write_network_units", "network_units_dir", "write_network_units",
                "writing network units", "returned")

\* quick_main!(run): exit status 0 for Ok, 1 for Err
quick_main ==
    /\ pc = "returned"
    /\ exit_code' = IF err = <<>> THEN 0 ELSE 1
    /\ pc' = "exited"
    /\ UNCHANGED <<args, config, cmdline_file, metadata, calls, outcome, err>>

Next ==
    \/ run_init
    \/ run_fetch
    \/ run_write_attributes
    \/ run_write_ssh_keys
    \/ run_write_hostname
    \/ run_write_network_units
    \/ quick_main

Spec == Init /\ [][Next]_vars

\* ---------------------------------------------------------------- SpecOem
\* runs that derive the provider from the boot parameter file, over every
\* parameter list of up to MaxTokens tokens
OemConfigs ==
    {cfg \in Configs : /\ cfg.provider = None
                       /\ cfg.cmdline
                       /\ cfg.ssh_keys_user = cfg.attributes_file
                       /\ cfg.hostname_file = cfg.attributes_file
                       /\ cfg.network_units_dir = cfg.attributes_file}

InitOem == \E cfg \in OemConfigs, file \in CmdlineFiles(MaxTokens) : Start(cfg, file)

SpecOem == InitOem /\ [][Next]_vars

\* ================================================================ properties
Writers == {"write_attributes", "write_ssh_keys", "write_hostname", "write_network_units"}

WriterOf(t) ==
    CASE t = "attributes_file" -> "write_attributes"
      [] t = "ssh_keys_user" -> "write_ssh_keys"
      [] t = "hostname_file" -> "write_hostname"
      [] t = "network_units_dir" -> "write_network_units"

LabelOf(t) ==
    CASE t = "attributes_file" -> "writing metadata attributes"
      [] t = "ssh_keys_user" -> "writing ssh keys"
      [] t = "hostname_file" -> "writing hostname"
      [] t = "network_units_dir" -> "writing network units"

StageLabels ==
    {"initialization", "fetching metadata from provider", "writing metadata attributes",
     "writing ssh keys", "writing hostname", "writing network units"}

\* the nine registered names and the provider variant each one selects
Registry ==
    (s_azure :> "azure::Azure")
    @@ (s_cloudstack_metadata :> "cloudstack::network::CloudstackNetwork")
    @@ (s_cloudstack_configdrive :> "cloudstack::configdrive::ConfigDrive")
    @@ (s_digitalocean :> "digitalocean::DigitalOceanProvider")
    @@ (s_ec2 :> "ec2::Ec2Provider")
    @@ (s_gce :> "gce::GceProvider")
    @@ (s_openstack_metadata :> "openstack::network::OpenstackProvider")
    @@ (s_packet :> "packet::PacketProvider")
    @@ (s_vagrant_virtualbox :> "vagrant_virtualbox::VagrantVirtualboxProvider")

Registered == DOMAIN Registry

Variants == {Registry[n] : n \in Registered}

Occurrences(op) == Cardinality({i \in DOMAIN calls : calls[i].op = op})

Called(op) == Occurrences(op) > 0

\* the constructors invoked so far, in order
Constructed == SelectSeq(calls, LAMBDA c : c.op \in Variants)

\* the names fetch_metadata was called with, in order
Fetched == SelectSeq(calls, LAMBDA c : c.op = "fetch_metadata")

Finished == pc \in {"returned", "exited"}

\* ---------------------------------------------------------------- C1
\* C1: once a run that fetched its metadata has finished, every writer whose
\* target is configured has been invoked exactly once, whether or not an
\* earlier writer failed.
C1_EveryConfiguredWriterAttempted ==
    (Finished /\ metadata # None) =>
        \A t \in Targets : args[t] => Occurrences(WriterOf(t)) = 1

\* ---------------------------------------------------------------- C2
\* C2: when fetch_metadata is called with a name that is not registered, the
\* run's error is UnknownProvider carrying exactly that name (under the fetch
\* stage label), and no provider constructor has been invoked.
C2_UnknownProviderError ==
    (Called("fetch_metadata") /\ Fetched[1].arg \notin Registered) =>
        /\ err = <<Msg("fetching metadata from provider"), UnknownProvider(Fetched[1].arg)>>
        /\ Constructed = <<>>
        /\ metadata = None

C2_Witness ==
    /\ Called("fetch_metadata")
    /\ Fetched[1].arg = s_ec2x
    /\ err[2] = UnknownProvider(s_ec2x)
    /\ pc = "exited"

\* ---------------------------------------------------------------- C3
\* C3: with neither --provider nor --cmdline the run performs no call at all
\* (no file read, no fetch, no writer), never reaches a writer stage, ends
\* with the configuration error and exits non-zero.
C3_NoSelectionFailsBeforeIO ==
    (args.provider = None /\ ~args.cmdline) =>
        /\ calls = <<>>
        /\ metadata = None
        /\ pc \in {"init", "fetch", "returned", "exited"}
        /\ Finished => err = <<Msg("Must set either --provider or --cmdline")>>
        /\ pc = "exited" => exit_code = 1

C3_Witness ==
    /\ args.provider = None
    /\ ~args.cmdline
    /\ \A t \in Targets : args[t]
    /\ cmdline_file.open_ok /\ cmdline_file.read_ok
    /\ Len(cmdline_file.tokens) = 1 /\ cmdline_file.tokens[1].val = Some(s_ec2)
    /\ pc = "exited"
    /\ exit_code = 1

\* ---------------------------------------------------------------- C4
\* C4: a writer is invoked only after fetch_metadata returned successfully;
\* when fetch_metadata failed no writer is ever invoked and the run ends in
\* error.
C4_WritersOnlyAfterFetch ==
    /\ \A i \in DOMAIN calls :
         calls[i].op \in Writers =>
            /\ metadata # None
            /\ \E j \in 1..(i - 1) : calls[j].op = "fetch_metadata"
    /\ (Called("fetch_metadata") /\ metadata = None) =>
            /\ \A w \in Writers : ~Called(w)
            /\ Finished
            /\ err # <<>>
            /\ pc = "exited" => exit_code # 0

C4_Witness ==
    /\ Called("fetch_metadata")
    /\ Fetched[1].arg = s_gce
    /\ Constructed # <<>>
    /\ metadata = None
    /\ \A t \in Targets : args[t]
    /\ pc = "exited"
    /\ exit_code = 1

\* ---------------------------------------------------------------- C5
\* C5: a writer is invoked only if its target was configured; for an omitted
\* target the writer is never invoked, nothing is recorded for it, and no
\* error of the run comes from its stage.
C5_OmittedTargetSkipped ==
    \A t \in Targets :
        ~args[t] =>
            /\ ~Called(WriterOf(t))
            /\ outcome[t] = "none"
            /\ err # <<>> => Head(err).text # LabelOf(t)

C5_Witness ==
    /\ args.attributes_file /\ ~args.ssh_keys_user
    /\ ~args.hostname_file /\ args.network_units_dir
    /\ Called("write_attributes") /\ Called("write_network_units")
    /\ pc = "exited"
    /\ exit_code = 0

\* ---------------------------------------------------------------- C6
\* C6: the exit status is 0 exactly when the provider was resolved, the fetch
\* succeeded and every configured writer succeeded; otherwise it is 1.
C6_ExitStatus ==
    pc = "exited" =>
        /\ exit_code \in {0, 1}
        /\ exit_code = 0 <=>
              /\ config.provider # None
              /\ metadata # None
              /\ \A t \in Targets : args[t] => outcome[t] = "ok"
        /\ (\E t \in Targets : outcome[t] = "err") => exit_code # 0

C6_Witness ==
    /\ pc = "exited"
    /\ \A t \in Targets : args[t]
    /\ outcome["network_units_dir"] = "err"
    /\ exit_code = 1

\* ---------------------------------------------------------------- C7
\* C7: every error run returns is a chain whose outermost element is the
\* label of the stage that failed, on top of the underlying error.
C7_EveryErrorCarriesStage ==
    (Finished /\ err # <<>>) =>
        /\ Len(err) >= 2
        /\ Head(err).kind = "Msg"
        /\ Head(err).text \in StageLabels

\* ---------------------------------------------------------------- C8
\* the value of the first parameter coreos.oem.id=V of a parameter list
OemTokens(toks) == {i \in DOMAIN toks : toks[i].key = CMDLINE_OEM_FLAG /\ toks[i].val # None}

FirstOemValue(toks) == toks[CHOOSE i \in OemTokens(toks) : \A j \in OemTokens(toks) : i <= j].val[1]

\* C8: once init has derived the provider from a readable boot parameter
\* file, the provider is exactly the value V of the first coreos.oem.id=V
\* parameter, wherever it stands in the line, and init fails when there is
\* no such parameter.
C8_GetOemReturnsValue ==
    (args.provider = None /\ args.cmdline /\ pc # "init"
     /\ cmdline_file.open_ok /\ cmdline_file.read_ok) =>
        IF OemTokens(cmdline_file.tokens) # {}
        THEN config.provider = Some(FirstOemValue(cmdline_file.tokens))
        ELSE config.provider = None /\ Head(err).text = "initialization"

\* ---------------------------------------------------------------- C9
\* C9: a registered name makes fetch_metadata invoke exactly one constructor,
\* the one registered for it; different registered names select different
\* variants; any other name, such as one differing in letter case or by an
\* extra character, invokes none.
C9_ExactDispatch ==
    /\ Called("fetch_metadata") =>
         /\ Len(Fetched) = 1
         /\ IF Fetched[1].arg \in Registered
            THEN /\ Len(Constructed) = 1
                 /\ Constructed[1].op = Registry[Fetched[1].arg]
                 /\ metadata # None => metadata = Some(Registry[Fetched[1].arg])
            ELSE Constructed = <<>>
    /\ \A n1, n2 \in Registered :
         n1 # n2 => fetch_metadata(n1, TRUE).variant # fetch_metadata(n2, TRUE).variant

C9_Witness ==
    /\ Fetched # <<>>
    /\ Fetched[1].arg = s_EC2
    /\ Constructed = <<>>
    /\ Finished

\* ---------------------------------------------------------------- C10
\* C10: the boot parameter file is opened only when no provider name was
\* given and --cmdline was; a given name is passed unchanged to
\* fetch_metadata and the file is never opened, so its state cannot fail the
\* run at initialization.
C10_ExplicitProviderWins ==
    /\ Called("File::open") => (args.provider = None /\ args.cmdline)
    /\ args.provider # None =>
         /\ config.provider = args.provider
         /\ ~Called("File::open") /\ ~Called("read_to_string")
         /\ pc \notin {"init", "fetch"} => (Fetched # <<>> /\ Fetched[1].arg = args.provider[1])
         /\ err # <<>> => Head(err).text # "initialization"

C10_Witness ==
    /\ args.provider = Some(s_packet)
    /\ args.cmdline
    /\ ~cmdline_file.open_ok
    /\ Fetched # <<>> /\ Fetched[1].arg = s_packet
    /\ pc = "exited"
    /\ exit_code = 0

====
